---- MODULE Spec2Model ----
(***************************************************************************)
(* dynamodb_marshall: conversion between serde_json::Value and the         *)
(* DynamoDB AttributeValue (src/src/lib.rs, mod dynamodb).                 *)
(*                                                                         *)
(* Strings are sequences of one-character strings.  Integers are decimal   *)
(* magnitudes (sequences of digits 0..9, most significant first, no        *)
(* leading zero, <<0>> for zero) so that the 64-bit range is kept exactly. *)
(* A finite f64 is named by its shortest decimal form (the digits its      *)
(* Display prints): sign, significant digits (no leading or trailing       *)
(* zero, <<0>> for zero) and the decimal exponent of the first digit.      *)
(* Parsing rounds the decimal text to the nearest f64 (ties to even, with  *)
(* subnormals, underflow and overflow) in exact decimal arithmetic.        *)
(***************************************************************************)
EXTENDS Integers, Sequences, FiniteSets, TLC

VARIABLES vals, calls

vars == <<vals, calls>>

(***************************************************************************)
(* Text and digits                                                         *)
(***************************************************************************)
DigitChars == <<"0", "1", "2", "3", "4", "5", "6", "7", "8", "9">>

IsDigit(c) == \E d \in 1..10 : DigitChars[d] = c

DigitVal(c) == (CHOOSE d \in 1..10 : DigitChars[d] = c) - 1

AllDigits(s) == \A i \in 1..Len(s) : IsDigit(s[i])

DigitVals(s) == [i \in 1..Len(s) |-> DigitVal(s[i])]

DigitText(ds) == [i \in 1..Len(ds) |-> DigitChars[ds[i] + 1]]

Contains(s, c) == \E i \in 1..Len(s) : s[i] = c

Zeros(n) == [i \in 1..n |-> 0]

\* the place of the first digit that is not 0, Len(ds) + 1 when there is none
FirstNonZero(ds) ==
    IF \A i \in 1..Len(ds) : ds[i] = 0 THEN Len(ds) + 1
    ELSE CHOOSE i \in 1..Len(ds) :
            ds[i] # 0 /\ \A j \in 1..(i - 1) : ds[j] = 0

\* the place of the last digit that is not 0, 0 when there is none
LastNonZero(ds) ==
    IF \A i \in 1..Len(ds) : ds[i] = 0 THEN 0
    ELSE CHOOSE i \in 1..Len(ds) :
            ds[i] # 0 /\ \A j \in (i + 1)..Len(ds) : ds[j] = 0

LeadingZeroCount(ds) == FirstNonZero(ds) - 1

\* ds without its leading zeros, <<0>> when nothing else is left
StripLeadingZeros(ds) ==
    IF FirstNonZero(ds) > Len(ds) THEN <<0>>
    ELSE SubSeq(ds, FirstNonZero(ds), Len(ds))

\* ds without its trailing zeros
StripTrailingZeros(ds) == SubSeq(ds, 1, LastNonZero(ds))

\* a < b for digit sequences of the same length
LexLess(a, b) ==
    \E i \in 1..Len(a) : a[i] < b[i] /\ \A j \in 1..(i - 1) : a[j] = b[j]

\* a <= b for canonical magnitudes
MagLeq(a, b) ==
    \/ Len(a) < Len(b)
    \/ Len(a) = Len(b) /\ (a = b \/ LexLess(a, b))

MagLess(a, b) == ~MagLeq(b, a)

\* a < b for significands d1.d2d3..., the shorter one padded with zeros
FracLess(a, b) ==
    LET n == IF Len(a) > Len(b) THEN Len(a) ELSE Len(b)
    IN  LexLess(a \o Zeros(n - Len(a)), b \o Zeros(n - Len(b)))

RECURSIVE NatVal(_)
NatVal(ds) ==
    IF ds = <<>> THEN 0
    ELSE NatVal(SubSeq(ds, 1, Len(ds) - 1)) * 10 + ds[Len(ds)]

RECURSIVE NatDigits(_)
NatDigits(n) ==
    IF n < 10 THEN <<n>> ELSE NatDigits(n \div 10) \o <<n % 10>>

\* d + 1 for a canonical magnitude d
Inc(d) ==
    LET k == IF \A i \in 1..Len(d) : d[i] = 9 THEN 0
             ELSE CHOOSE i \in 1..Len(d) :
                     d[i] # 9 /\ \A j \in (i + 1)..Len(d) : d[j] = 9
    IN  IF k = 0 THEN <<1>> \o Zeros(Len(d))
        ELSE [i \in 1..Len(d) |->
                IF i < k THEN d[i] ELSE IF i = k THEN d[i] + 1 ELSE 0]

\* d - 1 for a canonical magnitude d > 0
Dec(d) ==
    LET k == LastNonZero(d)
    IN  StripLeadingZeros([i \in 1..Len(d) |->
            IF i < k THEN d[i] ELSE IF i = k THEN d[i] - 1 ELSE 9])

\* 2 * d, one digit longer than d: a digit's carry is decided by the digit
\* below it alone
Double(d) ==
    [i \in 1..(Len(d) + 1) |->
        ((IF i = 1 THEN 0 ELSE 2 * d[i - 1]) % 10)
        + (IF i <= Len(d) /\ d[i] >= 5 THEN 1 ELSE 0)]

\* d / 2 for a digit sequence d of even value
Halve(d) ==
    [i \in 1..Len(d) |->
        (d[i] + (IF i > 1 /\ d[i - 1] % 2 = 1 THEN 10 ELSE 0)) \div 2]

(***************************************************************************)
(* Machine number types                                                    *)
(***************************************************************************)
\* i64::MAX = 9223372036854775807, |i64::MIN| = 9223372036854775808
I64_MAX == <<9, 2, 2, 3, 3, 7, 2, 0, 3, 6, 8, 5, 4, 7, 7, 5, 8, 0, 7>>

I64_MIN_MAG == <<9, 2, 2, 3, 3, 7, 2, 0, 3, 6, 8, 5, 4, 7, 7, 5, 8, 0, 8>>

\* u64::MAX = 18446744073709551615
U64_MAX == <<1, 8, 4, 4, 6, 7, 4, 4, 0, 7, 3, 7, 0, 9, 5, 5, 1, 6, 1, 5>>

\* 2^52 and 2^53: the significand m of a normal f64 m * 2^q is in [2^52, 2^53)
TWO_52 == <<4, 5, 0, 3, 5, 9, 9, 6, 2, 7, 3, 7, 0, 4, 9, 6>>

TWO_53 == <<9, 0, 0, 7, 1, 9, 9, 2, 5, 4, 7, 4, 0, 9, 9, 2>>

\* f64::MAX = (2^53 - 1) * 2^971
F64_MAX_Q == 971

\* the least subnormal is 2^-1074
F64_MIN_Q == -1074

\* text of 1e309 and more is beyond f64::MAX
F64_INF_EXP10 == 309

\* text below 1e-324 is below half the least subnormal
F64_ZERO_EXP10 == -325

\* f64::DIGITS
F64_DIGITS == 15

\* f64::MIN_10_EXP
F64_MIN_10_EXP == -307

\* f64::MAX_10_EXP
F64_MAX_10_EXP == 308

\* 0x10000: dec2flt stops accumulating exponent digits from there on
EXP_SATURATE == 65536

I64(neg, mag) == [neg |-> neg, mag |-> mag]

F64Finite(neg, digits, exp) ==
    [class |-> "finite", neg |-> neg, digits |-> digits, exp |-> exp]

F64Inf(neg) == [class |-> "inf", neg |-> neg]

F64NaN == [class |-> "nan"]

Ok(v) == [t |-> "Ok", val |-> v]

Err(e) == [t |-> "Err", err |-> e]

\* The checked digit loop of from_str_radix: each character in turn must be a
\* digit (else InvalidDigit), and the number read so far must stay within
\* bound (else the overflow of the sign); the first failure is the error.
checked_digits(neg, digits, bound) ==
    LET bad == {i \in 1..Len(digits) :
                   \/ ~IsDigit(digits[i])
                   \/ /\ AllDigits(SubSeq(digits, 1, i))
                      /\ ~MagLeq(StripLeadingZeros(
                                     DigitVals(SubSeq(digits, 1, i))), bound)}
    IN  IF digits = <<>> THEN Err("InvalidDigit")
        ELSE IF bad = {}
        THEN LET mag == StripLeadingZeros(DigitVals(digits))
             IN  Ok(I64(neg /\ mag # <<0>>, mag))
        ELSE LET first == CHOOSE i \in bad : \A j \in bad : i <= j
             IN  IF ~IsDigit(digits[first]) THEN Err("InvalidDigit")
                 ELSE Err(IF neg THEN "NegOverflow" ELSE "PosOverflow")

\* parse_i64 with the positive bound used for both signs
parse_i64_symmetric(src) ==
    IF src = <<>> THEN Err("Empty")
    ELSE LET signed == Head(src) \in {"+", "-"}
             neg    == Head(src) = "-"
             digits == IF signed THEN Tail(src) ELSE src
         IN  checked_digits(neg, digits, I64_MAX)

\* <i64 as FromStr>::from_str
parse_i64(src) ==
    IF src = <<>> THEN Err("Empty")
    ELSE LET signed == Head(src) \in {"+", "-"}
             neg    == Head(src) = "-"
             digits == IF signed THEN Tail(src) ELSE src
         IN  checked_digits(neg, digits,
                            IF neg THEN I64_MIN_MAG ELSE I64_MAX)

\* <i64 as Display>::fmt
i64_to_string(i) == (IF i.neg THEN <<"-">> ELSE <<>>) \o DigitText(i.mag)

Lower(c) ==
    CASE c = "E" -> "e" [] c = "I" -> "i" [] c = "N" -> "n" [] c = "F" -> "f"
      [] c = "A" -> "a" [] c = "T" -> "t" [] c = "Y" -> "y" [] OTHER -> c

(***************************************************************************)
(* Exact decimal arithmetic for f64: a non-negative number is its integer  *)
(* part ip (canonical) and its fraction digits fp.                         *)
(***************************************************************************)
Fx(ip, fp) == [ip |-> ip, fp |-> fp]

FxDouble(x) ==
    LET w == Double(x.ip \o x.fp)
        n == Len(x.ip) + 1
    IN  Fx(StripLeadingZeros(SubSeq(w, 1, n)),
           StripTrailingZeros(SubSeq(w, n + 1, Len(w))))

FxHalve(x) ==
    LET w == Halve(x.ip \o x.fp \o <<0>>)
        n == Len(x.ip)
    IN  Fx(StripLeadingZeros(SubSeq(w, 1, n)),
           StripTrailingZeros(SubSeq(w, n + 1, Len(w))))

FxIsZero(x) == x.ip = <<0>> /\ x.fp = <<>>

\* x * 2^k, by halves of k
RECURSIVE FxScale(_, _)
FxScale(x, k) ==
    IF k = 0 \/ FxIsZero(x) THEN x
    ELSE IF k = 1 THEN FxDouble(x)
    ELSE IF k = -1 THEN FxHalve(x)
    ELSE FxScale(FxScale(x, k \div 2), k - (k \div 2))

\* x * 2^-q' and q' for q' next to q: the integer part of the result is in
\* [2^52, 2^53), or below 2^52 with q' = F64_MIN_Q (a subnormal)
RECURSIVE Normalize(_, _)
Normalize(x, q) ==
    IF ~MagLess(x.ip, TWO_53) THEN Normalize(FxHalve(x), q + 1)
    ELSE IF MagLess(x.ip, TWO_52) /\ q > F64_MIN_Q
    THEN Normalize(FxDouble(x), q - 1)
    ELSE [x |-> x, q |-> q]

\* about log2(10^exp) - 52, not below F64_MIN_Q: where Normalize starts from
BinaryExponentNear(exp) ==
    LET q == ((exp * 3322) \div 1000) - 52
    IN  IF q < F64_MIN_Q THEN F64_MIN_Q ELSE q

\* round to nearest, ties to even: whether x's integer part is rounded up
RoundsUp(x) ==
    /\ x.fp # <<>>
    /\ x.fp[1] >= 5
    /\ \/ x.fp[1] > 5
       \/ \E i \in 2..Len(x.fp) : x.fp[i] # 0
       \/ x.ip[Len(x.ip)] % 2 = 1

\* a positive number as significant digits and the exponent of the first one
Sci(x) ==
    IF x.ip # <<0>>
    THEN [sig |-> StripTrailingZeros(x.ip \o x.fp), exp |-> Len(x.ip) - 1]
    ELSE [sig |-> SubSeq(x.fp, FirstNonZero(x.fp), Len(x.fp)),
          exp |-> 0 - FirstNonZero(x.fp)]

SciLess(a, b) ==
    a.exp < b.exp \/ (a.exp = b.exp /\ FracLess(a.sig, b.sig))

\* The n-digit decimals next to x (below: x cut to n digits; above: one more
\* in the last place) that lie in the rounding interval lo..hi of the f64,
\* its ends included when the significand is even; the nearer of them when
\* both do (ties to the even digit); none when neither does.
RECURSIVE ShortestFrom(_, _, _, _, _)
ShortestFrom(n, x, lo, hi, even) ==
    IF Len(x.sig) <= n THEN x
    ELSE
    LET cutd  == SubSeq(x.sig, 1, n)
        below == [sig |-> StripTrailingZeros(cutd), exp |-> x.exp]
        incd  == Inc(cutd)
        above == IF Len(incd) > n THEN [sig |-> <<1>>, exp |-> x.exp + 1]
                 ELSE [sig |-> StripTrailingZeros(incd), exp |-> x.exp]
        belowIn == IF even THEN ~SciLess(below, lo) ELSE SciLess(lo, below)
        aboveIn == IF even THEN ~SciLess(hi, above) ELSE SciLess(above, hi)
        nearerAbove ==
            /\ x.sig[n + 1] >= 5
            /\ \/ x.sig[n + 1] > 5
               \/ \E i \in (n + 2)..Len(x.sig) : x.sig[i] # 0
               \/ x.sig[n] % 2 = 1
    IN  IF belowIn /\ aboveIn
        THEN IF nearerAbove THEN above ELSE below
        ELSE IF belowIn THEN below
        ELSE IF aboveIn THEN above
        ELSE ShortestFrom(n + 1, x, lo, hi, even)

\* the shortest decimal that reads back as the f64 m * 2^q
Shortest(m, q) ==
    LET x  == Sci(FxScale(Fx(m, <<>>), q))
        hi == Sci(FxScale(Fx(Inc(StripLeadingZeros(Double(m))), <<>>), q - 1))
        lo == IF m = TWO_52 /\ q > F64_MIN_Q
              THEN Sci(FxScale(
                       Fx(Dec(StripLeadingZeros(Double(Double(m)))), <<>>),
                       q - 2))
              ELSE Sci(FxScale(Fx(Dec(StripLeadingZeros(Double(m))), <<>>),
                               q - 1))
    IN  ShortestFrom(1, x, lo, hi, m[Len(m)] % 2 = 0)

\* the digits intDigits '.' fracDigits times 10^e as a number
FxOfDecimal(intDigits, fracDigits, e) ==
    LET all == intDigits \o fracDigits
        p   == Len(intDigits) + e
    IN  IF p <= 0 THEN Fx(<<0>>, StripTrailingZeros(Zeros(0 - p) \o all))
        ELSE IF p >= Len(all)
        THEN Fx(StripLeadingZeros(all \o Zeros(p - Len(all))), <<>>)
        ELSE Fx(StripLeadingZeros(SubSeq(all, 1, p)),
                StripTrailingZeros(SubSeq(all, p + 1, Len(all))))

\* the f64 nearest to the number x > 0 (ties to even), computed in full
NearestF64(neg, x, exp) ==
    LET q0    == BinaryExponentNear(exp)
        n     == Normalize(FxScale(x, 0 - q0), q0)
        m0    == IF RoundsUp(n.x) THEN Inc(n.x.ip) ELSE n.x.ip
        carry == m0 = TWO_53
        m     == IF carry THEN TWO_52 ELSE m0
        q     == IF carry THEN n.q + 1 ELSE n.q
    IN  IF m = <<0>> THEN F64Finite(neg, <<0>>, 0)
        ELSE IF q > F64_MAX_Q THEN F64Inf(neg)
        ELSE LET sh == Shortest(m, q)
             IN  F64Finite(neg, sh.sig, sh.exp)

\* The f64 nearest to intDigits '.' fracDigits times 10^e.  A decimal of at
\* most f64::DIGITS significant digits in the range of the normal numbers is
\* itself the shortest form of its nearest f64, so it needs no arithmetic.
DecimalToF64(neg, intDigits, fracDigits, e) ==
    LET all  == intDigits \o fracDigits
        lead == LeadingZeroCount(all)
        exp  == Len(intDigits) - 1 - lead + e
        sig  == StripTrailingZeros(SubSeq(all, lead + 1, Len(all)))
    IN  IF lead = Len(all) THEN F64Finite(neg, <<0>>, 0)
        ELSE IF exp >= F64_INF_EXP10 THEN F64Inf(neg)
        ELSE IF exp <= F64_ZERO_EXP10 THEN F64Finite(neg, <<0>>, 0)
        ELSE IF /\ Len(sig) <= F64_DIGITS
                /\ exp >= F64_MIN_10_EXP
                /\ exp < F64_MAX_10_EXP
        THEN F64Finite(neg, sig, exp)
        ELSE NearestF64(neg, FxOfDecimal(intDigits, fracDigits, e), exp)

\* the exponent digits accumulated as dec2flt does: no more once at 0x10000
RECURSIVE ExpAccum(_, _)
ExpAccum(ds, acc) ==
    IF ds = <<>> THEN acc
    ELSE ExpAccum(Tail(ds),
                  IF acc < EXP_SATURATE THEN 10 * acc + Head(ds) ELSE acc)

\* <f64 as FromStr>::from_str:
\*   Float  ::= Sign? ( 'inf' | 'infinity' | 'nan' | Number )
\*   Number ::= ( Digit+ | Digit+ '.' Digit* | Digit* '.' Digit+ ) Exp?
\*   Exp    ::= 'e' Sign? Digit+
parse_f64(src) ==
    LET signed == src # <<>> /\ Head(src) \in {"+", "-"}
        neg    == src # <<>> /\ Head(src) = "-"
        s      == IF signed THEN Tail(src) ELSE src
        low    == [i \in 1..Len(s) |-> Lower(s[i])]
    IN  IF s = <<>> THEN Err(IF signed THEN "Invalid" ELSE "Empty")
        ELSE IF low \in {<<"i", "n", "f">>,
                         <<"i", "n", "f", "i", "n", "i", "t", "y">>}
        THEN Ok(F64Inf(neg))
        ELSE IF low = <<"n", "a", "n">> THEN Ok(F64NaN)
        ELSE
        LET es      == {i \in 1..Len(s) : low[i] = "e"}
            ePos    == IF es = {} THEN Len(s) + 1
                       ELSE CHOOSE i \in es : \A j \in es : i <= j
            mant    == SubSeq(s, 1, ePos - 1)
            hasExp  == ePos <= Len(s)
            expTxt  == SubSeq(s, ePos + 1, Len(s))
            expSign == expTxt # <<>> /\ Head(expTxt) \in {"+", "-"}
            expNeg  == expTxt # <<>> /\ Head(expTxt) = "-"
            expDig  == IF expSign THEN Tail(expTxt) ELSE expTxt
            dots    == {i \in 1..Len(mant) : mant[i] = "."}
            dotPos  == IF dots = {} THEN Len(mant) + 1
                       ELSE CHOOSE i \in dots : \A j \in dots : i <= j
            intTxt  == SubSeq(mant, 1, dotPos - 1)
            fracTxt == SubSeq(mant, dotPos + 1, Len(mant))
            mantOk  == /\ AllDigits(intTxt)
                       /\ AllDigits(fracTxt)
                       /\ Len(intTxt) + Len(fracTxt) >= 1
            expOk   == ~hasExp \/ (expDig # <<>> /\ AllDigits(expDig))
        IN  IF ~(mantOk /\ expOk) THEN Err("Invalid")
            ELSE LET eabs == IF hasExp THEN ExpAccum(DigitVals(expDig), 0)
                             ELSE 0
                     e    == IF expNeg THEN 0 - eabs ELSE eabs
                 IN  Ok(DecimalToF64(neg, DigitVals(intTxt),
                                     DigitVals(fracTxt), e))

(***************************************************************************)
(* serde_json::Number and serde_json::Value                                *)
(***************************************************************************)
PosInt(mag) == [n |-> "PosInt", mag |-> mag]

NegInt(mag) == [n |-> "NegInt", mag |-> mag]

Float(neg, digits, exp) ==
    [n |-> "Float", neg |-> neg, digits |-> digits, exp |-> exp]

ValueNull == [t |-> "Value::Null"]

ValueBool(b) == [t |-> "Value::Bool", b |-> b]

ValueNumber(n) == [t |-> "Value::Number", num |-> n]

ValueString(s) == [t |-> "Value::String", s |-> s]

ValueArray(a) == [t |-> "Value::Array", a |-> a]

ValueObject(o) == [t |-> "Value::Object", o |-> o]

ValueTags ==
    {"Value::Null", "Value::Bool", "Value::Number", "Value::String",
     "Value::Array", "Value::Object"}

\* the byte read as a signed 8-bit integer
Number_from_i8(b) ==
    IF b >= 128 THEN NegInt(NatDigits(256 - b)) ELSE PosInt(NatDigits(b))

\* impl From<u8> for Number
Number_from_u8(b) == PosInt(NatDigits(b))

\* impl From<i64> for Number: a negative i64 is NegInt, any other PosInt
Number_from_i64(i) == IF i.neg THEN NegInt(i.mag) ELSE PosInt(i.mag)

\* json!(i64)
json_i64(i) == ValueNumber(Number_from_i64(i))

\* json!(f64) = Value::from(f64) = Number::from_f64(f).map_or(Null, Number)
json_f64(f) ==
    IF f.class = "finite" THEN ValueNumber(Float(f.neg, f.digits, f.exp))
    ELSE ValueNull

\* json!(&String)
json_str(v) == ValueString(v)

\* the exponent is written with its sign, '+' included
ExpText(e) ==
    IF e < 0 THEN <<"-">> \o DigitText(NatDigits(0 - e))
    ELSE <<"+">> \o DigitText(NatDigits(e))

\* Buffer::format_finite of serde_json's float printer: the shortest digits,
\* written plainly when the decimal point falls within -5 < kk <= 16, else in
\* exponent form, which has no '.' when there is a single digit.
format_finite(neg, digits, exp) ==
    LET n    == Len(digits)
        kk   == exp + 1
        sign == IF neg THEN <<"-">> ELSE <<>>
        body ==
            IF n <= kk /\ kk <= 16
            THEN DigitText(digits \o Zeros(kk - n)) \o <<".", "0">>
            ELSE IF 0 < kk /\ kk <= 16
            THEN DigitText(SubSeq(digits, 1, kk)) \o <<".">>
                 \o DigitText(SubSeq(digits, kk + 1, n))
            ELSE IF -5 < kk /\ kk <= 0
            THEN <<"0", ".">> \o DigitText(Zeros(0 - kk) \o digits)
            ELSE IF n = 1
            THEN DigitText(digits) \o <<"e">> \o ExpText(exp)
            ELSE DigitText(SubSeq(digits, 1, 1)) \o <<".">>
                 \o DigitText(SubSeq(digits, 2, n)) \o <<"e">> \o ExpText(exp)
    IN  sign \o body

\* <Number as Display>::fmt
Number_to_string(num) ==
    CASE num.n = "PosInt" -> DigitText(num.mag)
      [] num.n = "NegInt" -> <<"-">> \o DigitText(num.mag)
      [] num.n = "Float"  -> format_finite(num.neg, num.digits, num.exp)

(***************************************************************************)
(* aws_sdk_dynamodb::types::AttributeValue                                 *)
(***************************************************************************)
AvS(s) == [t |-> "AttributeValue::S", s |-> s]

AvN(v) == [t |-> "AttributeValue::N", v |-> v]

AvB(blob) == [t |-> "AttributeValue::B", blob |-> blob]

AvBool(b) == [t |-> "AttributeValue::Bool", b |-> b]

AvNull(flag) == [t |-> "AttributeValue::Null", flag |-> flag]

AvM(m) == [t |-> "AttributeValue::M", m |-> m]

AvL(l) == [t |-> "AttributeValue::L", l |-> l]

AvSs(arr) == [t |-> "AttributeValue::Ss", arr |-> arr]

AvNs(arr) == [t |-> "AttributeValue::Ns", arr |-> arr]

AvBs(arr) == [t |-> "AttributeValue::Bs", arr |-> arr]

\* the variant the SDK's non-exhaustive enum keeps for tags it does not know
AvUnknown == [t |-> "AttributeValue::Unknown"]

AttributeValueTags ==
    {"AttributeValue::S", "AttributeValue::N", "AttributeValue::B",
     "AttributeValue::Bool", "AttributeValue::Null", "AttributeValue::M",
     "AttributeValue::L", "AttributeValue::Ss", "AttributeValue::Ns",
     "AttributeValue::Bs", "AttributeValue::Unknown"}

(***************************************************************************)
(* mod dynamodb                                                            *)
(***************************************************************************)
RECURSIVE marshall(_)

\* marshall turning an array of strings back into a string set
marshall_restoring_sets(m) ==
    CASE m.t = "Value::Null"   -> AvNull(TRUE)
      [] m.t = "Value::Bool"   -> AvBool(m.b)
      [] m.t = "Value::Number" -> AvN(Number_to_string(m.num))
      [] m.t = "Value::String" -> AvS(m.s)
      [] m.t = "Value::Array"  ->
            IF m.a # <<>> /\ \A i \in 1..Len(m.a) : m.a[i].t = "Value::String"
            THEN AvSs([i \in 1..Len(m.a) |-> m.a[i].s])
            ELSE AvL([i \in 1..Len(m.a) |-> marshall(m.a[i])])
      [] m.t = "Value::Object" ->
            AvM([k \in DOMAIN m.o |-> marshall(m.o[k])])

marshall(m) ==
    CASE m.t = "Value::Null"   -> AvNull(TRUE)
      [] m.t = "Value::Bool"   -> AvBool(m.b)
      [] m.t = "Value::Number" -> AvN(Number_to_string(m.num))
      [] m.t = "Value::String" -> AvS(m.s)
      [] m.t = "Value::Array"  ->
            AvL([i \in 1..Len(m.a) |-> marshall(m.a[i])])
      [] m.t = "Value::Object" ->
            AvM([k \in DOMAIN m.o |-> marshall(m.o[k])])

\* the N arm with the strict fallback: unparseable text becomes Null
unmarshall_N_strict(v) ==
    IF Contains(v, ".")
    THEN LET r == parse_f64(v)
         IN  IF r.t = "Ok" THEN json_f64(r.val) ELSE ValueNull
    ELSE LET r == parse_i64(v)
         IN  IF r.t = "Ok" THEN json_i64(r.val) ELSE ValueNull

\* the AttributeValue::N arm of unmarshall
unmarshall_N(v) ==
    IF Contains(v, ".")
    THEN LET r == parse_f64(v)
         IN  IF r.t = "Ok" THEN json_f64(r.val) ELSE json_str(v)
    ELSE LET r == parse_i64(v)
         IN  IF r.t = "Ok" THEN json_i64(r.val) ELSE json_str(v)

\* the AttributeValue::B arm of unmarshall
unmarshall_B(blob) ==
    ValueArray([i \in 1..Len(blob) |-> ValueNumber(Number_from_u8(blob[i]))])

\* the Ss arm collecting the strings in the opposite order
unmarshall_Ss_reversed(arr) ==
    ValueArray([i \in 1..Len(arr) |-> ValueString(arr[Len(arr) + 1 - i])])

\* the AttributeValue::Ss arm of unmarshall
unmarshall_Ss(arr) ==
    ValueArray([i \in 1..Len(arr) |-> ValueString(arr[i])])

RECURSIVE unmarshall(_)

\* unmarshall reading the flag of Null: Null(false) becomes Bool(false)
unmarshall_null_flag(m) ==
    CASE m.t = "AttributeValue::S"    -> ValueString(m.s)
      [] m.t = "AttributeValue::B"    -> unmarshall_B(m.blob)
      [] m.t = "AttributeValue::Bool" -> ValueBool(m.b)
      [] m.t = "AttributeValue::M"    ->
            ValueObject([k \in DOMAIN m.m |-> unmarshall(m.m[k])])
      [] m.t = "AttributeValue::N"    -> unmarshall_N(m.v)
      [] m.t = "AttributeValue::L"    ->
            ValueArray([i \in 1..Len(m.l) |-> unmarshall(m.l[i])])
      [] m.t = "AttributeValue::Ns"   ->
            ValueArray([i \in 1..Len(m.arr) |-> unmarshall(AvN(m.arr[i]))])
      [] m.t = "AttributeValue::Bs"   ->
            ValueArray([i \in 1..Len(m.arr) |-> unmarshall(AvB(m.arr[i]))])
      [] m.t = "AttributeValue::Ss"   -> unmarshall_Ss(m.arr)
      [] m.t = "AttributeValue::Null" ->
            IF m.flag THEN ValueNull ELSE ValueBool(FALSE)
      [] OTHER                        -> ValueNull

unmarshall(m) ==
    CASE m.t = "AttributeValue::S"    -> ValueString(m.s)
      [] m.t = "AttributeValue::B"    -> unmarshall_B(m.blob)
      [] m.t = "AttributeValue::Bool" -> ValueBool(m.b)
      [] m.t = "AttributeValue::M"    ->
            ValueObject([k \in DOMAIN m.m |-> unmarshall(m.m[k])])
      [] m.t = "AttributeValue::N"    -> unmarshall_N(m.v)
      [] m.t = "AttributeValue::L"    ->
            ValueArray([i \in 1..Len(m.l) |-> unmarshall(m.l[i])])
      [] m.t = "AttributeValue::Ns"   ->
            ValueArray([i \in 1..Len(m.arr) |-> unmarshall(AvN(m.arr[i]))])
      [] m.t = "AttributeValue::Bs"   ->
            ValueArray([i \in 1..Len(m.arr) |-> unmarshall(AvB(m.arr[i]))])
      [] m.t = "AttributeValue::Ss"   -> unmarshall_Ss(m.arr)
      [] OTHER                        -> ValueNull

\* serde_json::to_value on a typed value: the Value the type's Serialize
\* impl produces, or the serializer's error (a map whose keys are not
\* strings is the standard case).
to_value(x) ==
    IF x.t = "T::Serialize" THEN Ok(x.ser) ELSE Err("key must be a string")

\* serde_json::from_value::<T> for a few target types T
from_value(ty, v) ==
    CASE ty = "Value"  -> Ok(v)
      [] ty = "bool"   -> IF v.t = "Value::Bool" THEN Ok([t |-> "bool", b |-> v.b])
                          ELSE Err("invalid type")
      [] ty = "String" -> IF v.t = "Value::String" THEN Ok([t |-> "String", s |-> v.s])
                          ELSE Err("invalid type")
      [] ty = "()"     -> IF v.t = "Value::Null" THEN Ok([t |-> "()"])
                          ELSE Err("invalid type")

\* marshall_t hiding the serializer's error behind a Null
marshall_t_swallow(x) ==
    LET m == to_value(x)
    IN  IF m.t = "Err" THEN Ok(AvNull(TRUE)) ELSE Ok(marshall(m.val))

marshall_t(x) ==
    LET m == to_value(x)
    IN  IF m.t = "Err" THEN Err(m.err) ELSE Ok(marshall(m.val))

unmarshall_t(ty, sv) ==
    LET m == unmarshall(sv)
    IN  from_value(ty, m)

(***************************************************************************)
(* Inputs                                                                  *)
(***************************************************************************)
MaxTextLen == 4

MaxListLen == 2

MaxBlobLen == 2

MaxCalls == 3

SeqsUpTo(S, n) == UNION {[1..k -> S] : k \in 0..n}

MapsOver(K, S) == UNION {[D -> S] : D \in SUBSET K}

TextAlphabet == {"0", "1", "-", ".", "e", "a"}

ShortTexts == SeqsUpTo(TextAlphabet, MaxTextLen)

BoundaryTexts ==
    {<<"9", "2", "2", "3", "3", "7", "2", "0", "3", "6", "8", "5", "4", "7", "7", "5", "8", "0", "7">>,
     <<"9", "2", "2", "3", "3", "7", "2", "0", "3", "6", "8", "5", "4", "7", "7", "5", "8", "0", "8">>,
     <<"-", "9", "2", "2", "3", "3", "7", "2", "0", "3", "6", "8", "5", "4", "7", "7", "5", "8", "0", "8">>,
     <<"-", "9", "2", "2", "3", "3", "7", "2", "0", "3", "6", "8", "5", "4", "7", "7", "5", "8", "0", "9">>,
     <<"1", "8", "4", "4", "6", "7", "4", "4", "0", "7", "3", "7", "0", "9", "5", "5", "1", "6", "1", "5">>,
     <<"9", "9", "9", "9", "9", "9", "9", "9", "9", "9", "9", "9", "9", "9", "9", "9", "9", "9", "9", "9", "9">>,
     <<"1", "2", "3", "a", "b", "c">>,
     <<"1", "2", "3", ".", "4", "5", "6">>,
     <<"7", "8", ".", "9">>,
     <<"1", ".", "0", "e", "9", "9", "9">>,
     <<"-", "1", ".", "5", "e", "9", "9", "9">>,
     <<"1", ".", "e", "1", "6">>,
     <<"1", ".", "5", "e", "3", "0", "0">>,
     <<"1", ".", "7", "9", "7", "7", "e", "3", "0", "8">>,
     <<"1", "E", "5">>,
     <<"2", ".", "5", "E", "-", "7">>,
     <<"0", ".", "0", "0", "0", "0", "1">>,
     <<"0", ".", "0", "0", "0", "0", "0", "1">>,
     <<"1", ".", "e", "-", "4", "0", "0">>,
     <<"0", "0", "7">>,
     <<"-", "0", "0", "0">>,
     <<"+", "4", "2">>,
     <<"i", "n", "f">>,
     <<"n", "a", "n">>,
     <<"1", ".", "2", ".", "3">>,
     <<"1", "2", "3", "4", "5", "6", "7", "8", ".", "5">>,
     <<"9", "0", "0", "7", "1", "9", "9", "2", "5", "4", "7", "4", "0", "9", "9", "3", ".", "0">>,
     <<"0", ".", "3", "0", "0", "0", "0", "0", "0", "0", "0", "0", "0", "0", "0", "0", "0", "0", "4">>,
     <<"9", "9", "9", "9", "9", "9", "9", "9", "9", "9", "9", "9", "9", "9", "9", "9", "9", "9", "9", "9", "a">>,
     <<"+">>, <<"+", ".", "5">>, <<"+", "1", ".", "e", "+", "2">>,
     <<"9", "9">>, <<"-", "9", "9", "9">>}

NumberTexts == ShortTexts \cup BoundaryTexts

StringSamples == {<<>>, <<"a">>, <<"4", "2">>, <<"1", ".", "5">>}

Keys == {<<"k">>, <<"n", "e", "s", "t", "e", "d">>}

ByteSamples == {0, 9, 128, 255}

Blobs == SeqsUpTo(ByteSamples, MaxBlobLen)

\* i64 values: the bounds, zero and values of either sign
I64Samples ==
    {I64(FALSE, <<0>>), I64(FALSE, <<1>>), I64(FALSE, <<4, 2>>),
     I64(TRUE, <<1>>), I64(TRUE, <<9, 9, 9>>),
     I64(FALSE, I64_MAX), I64(TRUE, I64_MAX), I64(TRUE, I64_MIN_MAG)}

\* u64 values above i64::MAX, which serde_json keeps as PosInt
U64Samples == {PosInt(I64_MIN_MAG), PosInt(U64_MAX)}

FloatDigits == {<<1>>, <<5>>, <<1, 5>>, <<1, 2, 3, 4, 5, 6>>}

FloatExps == {-7, -6, -5, -1, 0, 2, 15, 16, 17, 300}

Floats ==
    {Float(neg, d, e) : neg \in BOOLEAN, d \in FloatDigits, e \in FloatExps}
    \cup {Float(neg, <<0>>, 0) : neg \in BOOLEAN}

Numbers ==
    {Number_from_i64(i) : i \in I64Samples} \cup U64Samples \cup Floats

ValueLeaves ==
    {ValueNull} \cup {ValueBool(b) : b \in BOOLEAN}
    \cup {ValueNumber(n) : n \in Numbers}
    \cup {ValueString(s) : s \in StringSamples}

ValueNest0 ==
    {ValueNull, ValueBool(TRUE), ValueNumber(PosInt(<<1, 2, 3>>)),
     ValueNumber(NegInt(<<7>>)), ValueNumber(Float(FALSE, <<1, 5>>, 0)),
     ValueString(<<"a">>)}

ValueDepth1 ==
    {ValueArray(a) : a \in SeqsUpTo(ValueNest0, MaxListLen)}
    \cup {ValueObject(o) : o \in MapsOver(Keys, ValueNest0)}

ValueNest1 ==
    {ValueArray(<<>>), ValueObject(<<>>),
     ValueArray(<<ValueNull, ValueNumber(PosInt(<<1>>))>>),
     ValueObject([k \in {<<"k">>} |-> ValueString(<<"a">>)]),
     ValueBool(FALSE)}

ValueDepth2 ==
    {ValueArray(a) : a \in SeqsUpTo(ValueNest1, MaxListLen)}
    \cup {ValueObject(o) : o \in MapsOver(Keys, ValueNest1)}

Values == ValueLeaves \cup ValueDepth1 \cup ValueDepth2

AvLeaves ==
    {AvNull(f) : f \in BOOLEAN} \cup {AvBool(b) : b \in BOOLEAN}
    \cup {AvUnknown}
    \cup {AvN(v) : v \in NumberTexts}
    \cup {AvS(s) : s \in StringSamples}
    \cup {AvB(b) : b \in Blobs}

SetTexts ==
    {<<"1">>, <<"-", "2">>, <<"1", ".", "5">>, <<"1", "2", "a">>,
     <<"1", ".", "e", "1", "6">>}

AvSets ==
    {AvSs(a) : a \in SeqsUpTo(StringSamples, MaxListLen)}
    \cup {AvNs(a) : a \in SeqsUpTo(SetTexts, MaxListLen)}
    \cup {AvBs(a) : a \in SeqsUpTo({<<>>, <<1>>, <<0, 255>>}, MaxListLen)}

AvNest0 ==
    {AvNull(TRUE), AvNull(FALSE), AvUnknown, AvBool(FALSE),
     AvN(<<"4", "2">>), AvN(<<"1", ".", "5">>), AvS(<<"a">>),
     AvB(<<1, 255>>)}

AvDepth1 ==
    {AvL(l) : l \in SeqsUpTo(AvNest0, MaxListLen)}
    \cup {AvM(m) : m \in MapsOver(Keys, AvNest0)}

AvNest1 ==
    {AvL(<<>>), AvM(<<>>), AvL(<<AvUnknown, AvN(<<"7">>)>>),
     AvM([k \in {<<"k">>} |-> AvNull(FALSE)]), AvNull(FALSE),
     AvSs(<<<<"a">>, <<"b">>>>), AvNs(<<<<"1">>, <<"x">>>>)}

AvDepth2 ==
    {AvL(l) : l \in SeqsUpTo(AvNest1, MaxListLen)}
    \cup {AvM(m) : m \in MapsOver(Keys, AvNest1)}

AttributeValues == AvLeaves \cup AvSets \cup AvDepth1 \cup AvDepth2

Typed ==
    {[t |-> "T::Serialize", ser |-> v] : v \in ValueNest0 \cup ValueNest1}
    \cup {[t |-> "T::TupleKeyMap"]}

TargetTypes == {"Value", "bool", "String", "()"}

(***************************************************************************)
(* Calls: a caller holds a value and applies the functions of the crate to *)
(* it, feeding each result to the next call.  vals[1] is the caller's      *)
(* value, calls[k] the k-th call and vals[k + 1] what it returned.         *)
(***************************************************************************)
Cur == vals[Len(vals)]

Call(fn, ty) == [fn |-> fn, ty |-> ty]

Init ==
    /\ vals \in {<<x>> : x \in Values \cup AttributeValues \cup Typed}
    /\ calls = <<>>

Marshall ==
    /\ Len(calls) < MaxCalls
    /\ Cur.t \in ValueTags
    /\ vals' = Append(vals, marshall(Cur))
    /\ calls' = Append(calls, Call("marshall", "-"))

Unmarshall ==
    /\ Len(calls) < MaxCalls
    /\ Cur.t \in AttributeValueTags
    /\ vals' = Append(vals, unmarshall(Cur))
    /\ calls' = Append(calls, Call("unmarshall", "-"))

MarshallT ==
    /\ Len(calls) < MaxCalls
    /\ Cur.t \in {"T::Serialize", "T::TupleKeyMap"}
    /\ vals' = Append(vals, marshall_t(Cur))
    /\ calls' = Append(calls, Call("marshall_t", "-"))

UnmarshallT ==
    /\ Len(calls) < MaxCalls
    /\ Cur.t \in AttributeValueTags
    /\ \E ty \in TargetTypes :
        /\ vals' = Append(vals, unmarshall_t(ty, Cur))
        /\ calls' = Append(calls, Call("unmarshall_t", ty))

Next == Marshall \/ Unmarshall \/ MarshallT \/ UnmarshallT

Spec == Init /\ [][Next]_vars

(***************************************************************************)
(* Properties                                                              *)
(***************************************************************************)
CallIs(k, fn) == k \in 1..Len(calls) /\ calls[k].fn = fn

\* the parser the N arm picks for v rejects v
Unparseable(v) ==
    IF Contains(v, ".") THEN parse_f64(v).t = "Err" ELSE parse_i64(v).t = "Err"

\* v is Sign? Digit+ (no '.'), and its magnitude is outside the i64 range
OutOfRangeIntegerText(v) ==
    /\ v # <<>>
    /\ LET signed == Head(v) \in {"+", "-"}
           digits == IF signed THEN Tail(v) ELSE v
       IN  /\ digits # <<>>
           /\ AllDigits(digits)
           /\ ~MagLeq(StripLeadingZeros(DigitVals(digits)),
                      IF Head(v) = "-" THEN I64_MIN_MAG ELSE I64_MAX)

\* v holds a character no number is written with, and is not inf or nan
ForeignText(v) ==
    /\ \E i \in 1..Len(v) :
          ~IsDigit(v[i]) /\ v[i] \notin {"+", "-", ".", "e", "E"}
    /\ \A i \in 1..Len(v) : Lower(v[i]) \notin {"i", "n"}

\* v is the text of an i64: Display's form, within range
IsI64Text(v) ==
    /\ v # <<>>
    /\ LET neg    == Head(v) = "-"
           digits == IF neg THEN Tail(v) ELSE v
       IN  /\ digits # <<>>
           /\ AllDigits(digits)
           /\ Len(digits) = 1 \/ Head(digits) # "0"
           /\ ~(neg /\ digits = <<"0">>)
           /\ MagLeq(DigitVals(digits), IF neg THEN I64_MIN_MAG ELSE I64_MAX)

I64OfText(v) ==
    I64(Head(v) = "-", DigitVals(IF Head(v) = "-" THEN Tail(v) ELSE v))

\* num holds an i64: any NegInt, or a PosInt up to i64::MAX
IsI64Number(num) ==
    \/ num.n = "NegInt"
    \/ num.n = "PosInt" /\ MagLeq(num.mag, I64_MAX)

SetTags == {"AttributeValue::Ss", "AttributeValue::Ns", "AttributeValue::Bs"}

\* the k-th element of a set, as the store value it is a set of
ElementOf(set, k) ==
    CASE set.t = "AttributeValue::Ss" -> AvS(set.arr[k])
      [] set.t = "AttributeValue::Ns" -> AvN(set.arr[k])
      [] set.t = "AttributeValue::Bs" -> AvB(set.arr[k])

\* every node of av is Null, Bool, N, S, L or M
RECURSIVE EncoderRange(_)
EncoderRange(av) ==
    CASE av.t \in {"AttributeValue::Null", "AttributeValue::Bool",
                   "AttributeValue::N", "AttributeValue::S"} -> TRUE
      [] av.t = "AttributeValue::L" ->
            \A i \in 1..Len(av.l) : EncoderRange(av.l[i])
      [] av.t = "AttributeValue::M" ->
            \A k \in DOMAIN av.m : EncoderRange(av.m[k])
      [] OTHER -> FALSE

\* v has Null wherever av has Null(_) or an unknown variant, at the top or
\* inside lists and maps
RECURSIVE NullsDecoded(_, _)
NullsDecoded(av, v) ==
    CASE av.t \in {"AttributeValue::Null", "AttributeValue::Unknown"} ->
            v = ValueNull
      [] av.t = "AttributeValue::L" ->
            /\ v.t = "Value::Array"
            /\ Len(v.a) = Len(av.l)
            /\ \A i \in 1..Len(av.l) : NullsDecoded(av.l[i], v.a[i])
      [] av.t = "AttributeValue::M" ->
            /\ v.t = "Value::Object"
            /\ DOMAIN v.o = DOMAIN av.m
            /\ \A k \in DOMAIN av.m : NullsDecoded(av.m[k], v.o[k])
      [] OTHER -> TRUE

RECURSIVE HasNullNode(_)
HasNullNode(av) ==
    CASE av.t \in {"AttributeValue::Null", "AttributeValue::Unknown"} -> TRUE
      [] av.t = "AttributeValue::L" ->
            \E i \in 1..Len(av.l) : HasNullNode(av.l[i])
      [] av.t = "AttributeValue::M" ->
            \E k \in DOMAIN av.m : HasNullNode(av.m[k])
      [] OTHER -> FALSE

\* C1: round trip.  Whenever a generic value is marshalled and the result
\* unmarshalled, the value that comes back equals the value that went in.
C1_RoundTrip ==
    \A k \in 1..Len(calls) :
        CallIs(k, "marshall") /\ CallIs(k + 1, "unmarshall")
            => vals[k + 2] = vals[k]

\* C2: lenient numeric fallback.  Unmarshalling N(v) for a text v that cannot
\* be parsed (the parser of its branch rejects it; in particular text with a
\* foreign character, and dot-free integer text outside the i64 range)
\* returns String(v), and marshalling that result gives S(v).
C2_LenientFallback ==
    \A k \in 1..Len(calls) :
        /\ CallIs(k, "unmarshall")
        /\ vals[k].t = "AttributeValue::N"
        /\ \/ Unparseable(vals[k].v)
           \/ OutOfRangeIntegerText(vals[k].v)
           \/ ForeignText(vals[k].v)
        => /\ vals[k + 1] = ValueString(vals[k].v)
           /\ CallIs(k + 1, "marshall") => vals[k + 2] = AvS(vals[k].v)

\* the out-of-range literal of the tests was decoded and encoded again
C2_Witness ==
    /\ Len(calls) = 2
    /\ CallIs(1, "unmarshall") /\ CallIs(2, "marshall")
    /\ vals[1] = AvN(<<"9", "9", "9", "9", "9", "9", "9", "9", "9", "9", "9", "9", "9", "9", "9", "9", "9", "9", "9", "9", "9">>)
    /\ OutOfRangeIntegerText(vals[1].v)
    /\ vals[3].t = "AttributeValue::S"

\* C3: integer fidelity.  For every i64 i, unmarshalling N(textOf(i)) gives
\* Number(i), and marshalling Number(i) gives N(textOf(i)).
C3_IntegerFidelity ==
    \A k \in 1..Len(calls) :
        /\ CallIs(k, "unmarshall")
           /\ vals[k].t = "AttributeValue::N"
           /\ IsI64Text(vals[k].v)
           => vals[k + 1] = ValueNumber(Number_from_i64(I64OfText(vals[k].v)))
        /\ CallIs(k, "marshall")
           /\ vals[k].t = "Value::Number"
           /\ IsI64Number(vals[k].num)
           => vals[k + 1] =
                AvN(i64_to_string(I64(vals[k].num.n = "NegInt",
                                      vals[k].num.mag)))

\* i64::MIN was decoded from its text and encoded back to it
C3_Witness ==
    /\ Len(calls) = 2
    /\ CallIs(1, "unmarshall") /\ CallIs(2, "marshall")
    /\ vals[1] = AvN(i64_to_string(I64(TRUE, I64_MIN_MAG)))
    /\ vals[2] = ValueNumber(NegInt(I64_MIN_MAG))
    /\ vals[3] = vals[1]

\* C4: lossy sets.  Unmarshalling a set Ss, Ns or Bs of n elements gives an
\* array of n elements, the k-th being the decoded k-th element, and
\* marshalling that array gives an L, not a set.
C4_LossySets ==
    \A k \in 1..Len(calls) :
        CallIs(k, "unmarshall") /\ vals[k].t \in SetTags
        => /\ vals[k + 1].t = "Value::Array"
           /\ Len(vals[k + 1].a) = Len(vals[k].arr)
           /\ \A j \in 1..Len(vals[k].arr) :
                 vals[k + 1].a[j] = unmarshall(ElementOf(vals[k], j))
           /\ vals[k].t = "AttributeValue::Ss"
              => \A j \in 1..Len(vals[k].arr) :
                    vals[k + 1].a[j] = ValueString(vals[k].arr[j])
           /\ CallIs(k + 1, "marshall") => vals[k + 2].t = "AttributeValue::L"

\* a string set of two different strings was decoded and encoded again
C4_Witness ==
    /\ Len(calls) = 2
    /\ CallIs(1, "unmarshall") /\ CallIs(2, "marshall")
    /\ vals[1].t = "AttributeValue::Ss"
    /\ Len(vals[1].arr) = 2
    /\ vals[1].arr[1] # vals[1].arr[2]
    /\ vals[3].t = "AttributeValue::L"

\* C5: encoder output range.  No node of a marshalled value is B, Ns, Ss or
\* Bs (nor an unknown variant), whatever was marshalled, decoder output
\* included.
C5_EncoderRange ==
    \A k \in 1..Len(calls) :
        CallIs(k, "marshall") => EncoderRange(vals[k + 1])

\* a list holding sets was decoded and the result encoded
C5_Witness ==
    /\ Len(calls) = 2
    /\ CallIs(1, "unmarshall") /\ CallIs(2, "marshall")
    /\ vals[1].t = "AttributeValue::L"
    /\ \E i \in 1..Len(vals[1].l) : vals[1].l[i].t \in SetTags
    /\ EncoderRange(vals[3])

\* C6: Null and unknown variants.  Unmarshall gives Null for Null(true),
\* Null(false) and an unknown variant, also where they sit inside lists and
\* maps.
C6_NullAndUnknown ==
    \A k \in 1..Len(calls) :
        CallIs(k, "unmarshall")
        => /\ NullsDecoded(vals[k], vals[k + 1])
           /\ vals[k + 1].t \in ValueTags

\* a map holding Null(false) next to a list with an unknown variant was decoded
C6_Witness ==
    /\ Len(calls) = 1
    /\ CallIs(1, "unmarshall")
    /\ vals[1].t = "AttributeValue::M"
    /\ \E k \in DOMAIN vals[1].m : vals[1].m[k] = AvNull(FALSE)
    /\ \E k \in DOMAIN vals[1].m :
          /\ vals[1].m[k].t = "AttributeValue::L"
          /\ \E i \in 1..Len(vals[1].m[k].l) : vals[1].m[k].l[i] = AvUnknown
    /\ NullsDecoded(vals[1], vals[2])

\* C7: binary expansion.  Unmarshalling B(b) gives an array as long as b
\* whose k-th element is the non-negative integer Number equal to the k-th
\* byte.
C7_BinaryExpansion ==
    \A k \in 1..Len(calls) :
        CallIs(k, "unmarshall") /\ vals[k].t = "AttributeValue::B"
        => /\ vals[k + 1].t = "Value::Array"
           /\ Len(vals[k + 1].a) = Len(vals[k].blob)
           /\ \A j \in 1..Len(vals[k].blob) :
                 LET e == vals[k + 1].a[j]
                 IN  /\ e.t = "Value::Number"
                     /\ e.num.n = "PosInt"
                     /\ e.num.mag = StripLeadingZeros(e.num.mag)
                     /\ NatVal(e.num.mag) = vals[k].blob[j]
                     /\ vals[k].blob[j] \in 0..255

\* the blob [128, 255] was decoded
C7_Witness ==
    /\ Len(calls) = 1
    /\ CallIs(1, "unmarshall")
    /\ vals[1] = AvB(<<128, 255>>)
    /\ Len(vals[2].a) = 2
    /\ vals[2].a[2].num.mag = <<2, 5, 5>>

\* C8: error propagation.  marshall and unmarshall always return a value of
\* their result type.  marshall_t returns the serializer's error when the
\* serializer fails and Ok(marshall(serialized)) otherwise; unmarshall_t
\* returns what the deserializer returns for the unmarshalled value; a
\* failure carries the error and nothing else.
C8_ErrorPropagation ==
    \A k \in 1..Len(calls) :
        /\ CallIs(k, "marshall") => vals[k + 1].t \in AttributeValueTags
        /\ CallIs(k, "unmarshall") => vals[k + 1].t \in ValueTags
        /\ CallIs(k, "marshall_t")
           => LET ser == to_value(vals[k])
              IN  /\ vals[k + 1].t = "Err" <=> ser.t = "Err"
                  /\ ser.t = "Err" => vals[k + 1] = Err(ser.err)
                  /\ ser.t = "Ok" => vals[k + 1] = Ok(marshall(ser.val))
        /\ CallIs(k, "unmarshall_t")
           => LET de == from_value(calls[k].ty, unmarshall(vals[k]))
              IN  /\ vals[k + 1].t = "Err" <=> de.t = "Err"
                  /\ vals[k + 1] = de
        /\ vals[k + 1].t = "Err" => DOMAIN vals[k + 1] = {"t", "err"}

\* marshall_t was called on a value the serializer rejects
C8_Witness ==
    /\ Len(calls) = 1
    /\ CallIs(1, "marshall_t")
    /\ to_value(vals[1]).t = "Err"
    /\ vals[2].t = "Err"

\* C9: numeric decode policy.  Unmarshalling N(v) gives a Number when the
\* parser of v's branch (f64 with a '.', i64 without) accepts v, and
\* String(v) otherwise; never Null or another variant.
C9_NumericPolicy ==
    \A k \in 1..Len(calls) :
        CallIs(k, "unmarshall") /\ vals[k].t = "AttributeValue::N"
        => IF Unparseable(vals[k].v)
           THEN vals[k + 1] = ValueString(vals[k].v)
           ELSE vals[k + 1].t = "Value::Number"

\* C10: decode is stable under re-encoding.  Unmarshalling, marshalling and
\* unmarshalling again gives the value the first unmarshall gave.
C10_DecodeStable ==
    \A k \in 1..Len(calls) :
        /\ CallIs(k, "unmarshall")
        /\ CallIs(k + 1, "marshall")
        /\ CallIs(k + 2, "unmarshall")
        => vals[k + 3] = vals[k + 1]

====
